---- MODULE Spec2Model ----
(***************************************************************************)
(* Repayment ledger of the LoanLink server: the LoanApplication documents  *)
(* and the route handlers that create them, change their status, record    *)
(* repayments (direct and gateway-confirmed), reconcile balances on read   *)
(* and cancel them, and the payment routes that create gateway intents.    *)
(*                                                                         *)
(* Numbers are JavaScript Numbers with at most two decimals; the model     *)
(* holds them as integer hundredths (1.50 is 150), so that amount / 100 of *)
(* a cents value and loanAmount * interestRate / 100 are computed as the   *)
(* handlers compute them.  paymentDate/approvedAt timestamps and the       *)
(* descriptive fields of an application (names, address, ...) are left     *)
(* out: no handler branches on them.                                       *)
(***************************************************************************)
EXTENDS Integers, Sequences, FiniteSets, TLC

\* ------------------------------------------------------------------ bounds
MaxApps == 1
MaxRepayments == 2
MaxInFlight == 2
MaxCallers == 3

\* ----------------------------------------------------------- fixed point
FixedPoint == 100
\* the application fee, in cents
ApplicationFee == 1000
Num(n) == n * FixedPoint
Mul(x, y) == (x * y) \div FixedPoint
Div(x, y) == (x * FixedPoint) \div y
\* JavaScript truthiness of a Number: 0 is falsy
Falsy(x) == x = 0

\* --------------------------------------------------------------- inputs
AppIds == 1 .. MaxApps
Actors == { [userId |-> 1, role |-> "borrower"],
            [userId |-> 2, role |-> "borrower"],
            [userId |-> 3, role |-> "admin"],
            [userId |-> 4, role |-> "manager"] }
\* request bodies of POST /applications: the terms, plus any schema path the
\* client chooses to send (the handler spreads req.body into the document)
Terms == { [loanAmount |-> Num(2), interestRate |-> Num(50)] }
Extras == { [x \in {} |-> 0],
            [status |-> "Approved"],
            [status |-> "Approved", paidAmount |-> Num(1)] }
\* amounts of POST /repayments/:applicationId (major units)
DirectAmounts == { Num(0), Num(1), Num(3) }
\* amounts of POST /payments/confirm (cents)
ConfirmAmounts == { Num(0 - 100), Num(100) }
\* amount of a confirmed application fee (cents)
FeeAmounts == { Num(1000) }
\* "" is a body without the field
TxnIds == { "", "tx1" }
PaymentMethods == { "", "Cash" }
StatusInputs == { "Pending", "Approved", "Rejected", "Cancelled" }
FeeTxnIds == { "tx1" }
\* amounts of POST /payments/create-repayment-intent (cents)
IntentAmounts == { Num(0 - 100), Num(0), Num(100), Num(400) }
\* what stripe.paymentIntents.create does with a well-formed request
GatewayOutcomes == { "created", "failed" }
PaymentTypes == { "repayment", "applicationFee" }

\* ------------------------------------------------------------ the schema
StatusEnum == { "Pending", "Approved", "Rejected" }
RepaymentStatusEnum == { "Pending", "In Progress", "Complete" }
FeeStatusEnum == { "Paid", "Unpaid" }
NoDetails == [transactionId |-> "", amount |-> 0]

Field(b, f, default) == IF f \in DOMAIN b THEN b[f] ELSE default

\* new LoanApplication({...req.body, userId}) with the schema defaults
NewDocument(terms, extra, userId) ==
  [ userId               |-> userId,
    loanAmount           |-> terms.loanAmount,
    interestRate         |-> terms.interestRate,
    status               |-> Field(extra, "status", "Pending"),
    applicationFeeStatus |-> Field(extra, "applicationFeeStatus", "Unpaid"),
    paymentDetails       |-> NoDetails,
    totalAmount          |-> Field(extra, "totalAmount", 0),
    paidAmount           |-> Field(extra, "paidAmount", 0),
    remainingAmount      |-> Field(extra, "remainingAmount", 0),
    repayments           |-> << >>,
    repaymentStatus      |-> Field(extra, "repaymentStatus", "Pending") ]

\* the enum validators mongoose runs in save()
Validate(doc) ==
  /\ doc.status \in StatusEnum
  /\ doc.repaymentStatus \in RepaymentStatusEnum
  /\ doc.applicationFeeStatus \in FeeStatusEnum

\* ---------------------------------------------------------------- state
\* db: the applications collection; resp: the last request answered (its
\* error, the amount it asked for, the maximum an "exceeds" message states,
\* the amount of the intent created at the gateway and the totalAmount and
\* remainingAmount a read reports, each << >> when there is none); stripe:
\* whether STRIPE_SECRET_KEY gave a Stripe client; conn: the connection to
\* MongoDB (mongoose.connection.readyState, the isConnecting flag of db.js,
\* whether MONGODB_URI is set) and where each caller of connectDB stands
VARIABLES db, nextId, resp, inflight, stripe, conn

vars == << db, nextId, resp, inflight, stripe, conn >>

Idle == [op |-> "idle"]
NoResp == [op |-> "none", app |-> 0, err |-> "OK",
           amount |-> << >>, max |-> << >>, intent |-> << >>, shown |-> << >>]

\* mongoose.connection and the callers of connectDB once the connection is
\* up: readyState 1, no attempt in flight, the requests past
\* ensureDBConnection
Connected ==
  [readyState |-> 1, isConnecting |-> FALSE, mongoUri |-> TRUE,
   pc |-> [c \in {} |-> "idle"]]

Blank ==
  /\ db = [a \in {} |-> 0]
  /\ nextId = 1
  /\ resp = NoResp
  /\ inflight = [r \in 1 .. MaxInFlight |-> Idle]
  /\ conn = Connected

\* a deployment with the payment gateway configured
Init == Blank /\ stripe = TRUE

\* ------------------------------------------------------- handler results
\* what a handler hands back: the error (or "OK"), the document as the
\* handler left it in memory, and whether application.save() was reached
Fail(err, doc) ==
  [err |-> err, save |-> FALSE, doc |-> doc,
   amount |-> << >>, max |-> << >>, intent |-> << >>, shown |-> << >>]
Saved(doc) == [Fail("OK", doc) EXCEPT !.save = TRUE]
\* 200 with nothing saved
Done(doc) == Fail("OK", doc)
\* Faulty variant: the refusal that first saves the balance it reconciled
ExceedsSaved(doc, max) ==
  [Fail("InvalidAmount", [doc EXCEPT !.remainingAmount = max])
     EXCEPT !.max = << max >>, !.save = TRUE]
\* 400 "Payment amount exceeds remaining balance. Maximum: $max"
Exceeds(doc, max) == [Fail("InvalidAmount", doc) EXCEPT !.max = << max >>]
\* 200 with the client secret of the intent the gateway created
Secret(doc, amount) == [Fail("OK", doc) EXCEPT !.intent = << amount >>]
\* 200 of GET /repayments/:applicationId with the balances it reports
Shows(totalAmount, remainingAmount, res) ==
  [res EXCEPT !.shown = << totalAmount, remainingAmount >>]
\* the amount of the request, kept with its answer
For(amount, res) == [res EXCEPT !.amount = << amount >>]

Max0(x) == IF x < 0 THEN 0 ELSE x

RECURSIVE SumAmounts(_)
SumAmounts(s) == IF s = << >> THEN 0 ELSE s[1].amount + SumAmounts(Tail(s))

\* owner, or admin/manager (repayments routes)
IsOwner(doc, actor) == doc.userId = actor.userId
IsAdminOrManager(actor) == actor.role = "admin" \/ actor.role = "manager"

\* loanAmount + loanAmount * interestRate / 100
WithInterest(loanAmount, interestRate) ==
  loanAmount + Div(Mul(loanAmount, interestRate), Num(100))

\* Faulty variant: a status change that starts the ledger afresh
StatusResultResetsLedger(doc, status) ==
  LET d1 == [doc EXCEPT !.status = status, !.paidAmount = 0,
                        !.repaymentStatus = "Pending"]
      d2 == IF status = "Approved"
            THEN [d1 EXCEPT !.totalAmount = WithInterest(doc.loanAmount, doc.interestRate),
                            !.remainingAmount = WithInterest(doc.loanAmount, doc.interestRate)]
            ELSE d1
  IN  IF Validate(d2) THEN Saved(d2) ELSE Fail("ServerError", doc)

\* Faulty variant: an approval that leaves the interest out of the balances
StatusResultPrincipalOnly(doc, status) ==
  LET d1 == [doc EXCEPT !.status = status]
      d2 == IF status = "Approved"
            THEN [d1 EXCEPT !.totalAmount = doc.loanAmount,
                            !.remainingAmount = doc.loanAmount,
                            !.repaymentStatus = "Pending"]
            ELSE d1
  IN  IF Validate(d2) THEN Saved(d2) ELSE Fail("ServerError", doc)

\* PATCH /applications/:id/status, after the role check and findById
StatusResult(doc, status) ==
  LET d1 == [doc EXCEPT !.status = status]
      d2 == IF status = "Approved"
            THEN [d1 EXCEPT !.totalAmount = WithInterest(doc.loanAmount, doc.interestRate),
                            !.remainingAmount = WithInterest(doc.loanAmount, doc.interestRate),
                            !.repaymentStatus = "Pending"]
            ELSE d1
  IN  IF Validate(d2) THEN Saved(d2) ELSE Fail("ServerError", doc)

\* Faulty variant: a backfill that does not look whether totalAmount is set
\* and adds the amount owed to it
ReadBackfillAccrues(doc) ==
  IF doc.status = "Approved" /\ ~Falsy(doc.loanAmount)
  THEN [doc EXCEPT !.totalAmount = doc.totalAmount
                                   + WithInterest(doc.loanAmount, doc.interestRate)]
  ELSE doc

\* GET /repayments/:applicationId: the part that writes (lines 49-67)
ReadBackfill(doc) ==
  IF Falsy(doc.totalAmount) /\ doc.status = "Approved" /\ ~Falsy(doc.loanAmount)
  THEN LET totalAmount == WithInterest(doc.loanAmount, doc.interestRate)
       IN  [doc EXCEPT !.totalAmount = totalAmount,
                       !.remainingAmount = IF Falsy(doc.remainingAmount)
                                           THEN totalAmount ELSE doc.remainingAmount]
  ELSE doc

\* GET /repayments/:applicationId: the totalAmount it reports
ReadTotal(doc) ==
  IF Falsy(doc.totalAmount)
  THEN IF doc.status = "Approved" /\ ~Falsy(doc.loanAmount)
       THEN WithInterest(doc.loanAmount, doc.interestRate)
       ELSE doc.loanAmount
  ELSE doc.totalAmount

\* GET /repayments/:applicationId: the remainingAmount it reports, computed
\* from the document as the backfill left it
ReadRemaining(doc) ==
  LET d == ReadBackfill(doc)
  IN  IF Falsy(d.remainingAmount) \/ d.remainingAmount < 0
      THEN Max0(ReadTotal(doc) - d.paidAmount)
      ELSE d.remainingAmount

\* Faulty variant: the read that saves the balances it reports, for every
\* record
GetResultSavesShown(doc, actor) ==
  IF ~IsOwner(doc, actor) /\ ~IsAdminOrManager(actor) THEN Fail("Forbidden", doc)
  ELSE Shows(ReadTotal(doc), ReadRemaining(doc),
             Saved([doc EXCEPT !.totalAmount = ReadTotal(doc),
                               !.remainingAmount = ReadRemaining(doc)]))

\* Faulty variant: the read without the authorization check
GetResultOpen(doc, actor) ==
  Shows(ReadTotal(doc), ReadRemaining(doc),
        IF Falsy(doc.totalAmount) /\ doc.status = "Approved" /\ ~Falsy(doc.loanAmount)
        THEN Saved(ReadBackfill(doc))
        ELSE Done(doc))

\* GET /repayments/:applicationId: save() is reached inside the backfill only
GetResult(doc, actor) ==
  IF ~IsOwner(doc, actor) /\ ~IsAdminOrManager(actor) THEN Fail("Forbidden", doc)
  ELSE Shows(ReadTotal(doc), ReadRemaining(doc),
             IF Falsy(doc.totalAmount) /\ doc.status = "Approved" /\ ~Falsy(doc.loanAmount)
             THEN Saved(ReadBackfill(doc))
             ELSE Done(doc))

\* POST /repayments/:applicationId: lines 113-124, on the in-memory document
ReconcileOnWrite(doc) ==
  LET d1 == IF Falsy(doc.totalAmount)
            THEN [doc EXCEPT !.totalAmount = WithInterest(doc.loanAmount, doc.interestRate)]
            ELSE doc
  IN  IF Falsy(d1.remainingAmount) \/ d1.remainingAmount < 0
      THEN [d1 EXCEPT !.remainingAmount = Max0(d1.totalAmount - d1.paidAmount)]
      ELSE d1

\* POST /repayments/:applicationId: lines 135-153
PushRepayment(doc, amount, txn, method) ==
  LET d1 == [doc EXCEPT !.repayments = Append(doc.repayments,
                 [amount |-> amount, transactionId |-> txn,
                  paymentMethod |-> IF method = "" THEN "Stripe" ELSE method])]
      d2 == [d1 EXCEPT !.paidAmount = d1.paidAmount + amount]
      d3 == [d2 EXCEPT !.remainingAmount = d2.totalAmount - d2.paidAmount]
  IN  IF d3.remainingAmount <= 0
      THEN [d3 EXCEPT !.repaymentStatus = "Complete", !.remainingAmount = 0]
      ELSE [d3 EXCEPT !.repaymentStatus = "In Progress"]

\* Faulty variants of the handler, for testing that the properties below
\* tell them from the handler: without the balance check, without the status
\* check, and with the amount checked before the status.
RepayChecksNoLimit(doc, actor, amount, txn, method) ==
  IF ~IsOwner(doc, actor) /\ ~IsAdminOrManager(actor) THEN Fail("Forbidden", doc)
  ELSE IF doc.status # "Approved" THEN Fail("InvalidState", doc)
  ELSE IF Falsy(amount) \/ amount <= 0 THEN Fail("InvalidAmount", doc)
  ELSE Saved(PushRepayment(ReconcileOnWrite(doc), amount, txn, method))

RepayChecksAnyStatus(doc, actor, amount, txn, method) ==
  IF ~IsOwner(doc, actor) /\ ~IsAdminOrManager(actor) THEN Fail("Forbidden", doc)
  ELSE IF Falsy(amount) \/ amount <= 0 THEN Fail("InvalidAmount", doc)
  ELSE IF amount > ReconcileOnWrite(doc).remainingAmount
       THEN Exceeds(doc, ReconcileOnWrite(doc).remainingAmount)
  ELSE Saved(PushRepayment(ReconcileOnWrite(doc), amount, txn, method))

RepayChecksAmountFirst(doc, actor, amount, txn, method) ==
  IF ~IsOwner(doc, actor) /\ ~IsAdminOrManager(actor) THEN Fail("Forbidden", doc)
  ELSE IF Falsy(amount) \/ amount <= 0 THEN Fail("InvalidAmount", doc)
  ELSE IF doc.status # "Approved" THEN Fail("InvalidState", doc)
  ELSE IF amount > ReconcileOnWrite(doc).remainingAmount
       THEN Exceeds(doc, ReconcileOnWrite(doc).remainingAmount)
  ELSE Saved(PushRepayment(ReconcileOnWrite(doc), amount, txn, method))

\* POST /repayments/:applicationId: lines 100-155, after findById
RepayChecks(doc, actor, amount, txn, method) ==
  IF ~IsOwner(doc, actor) /\ ~IsAdminOrManager(actor) THEN Fail("Forbidden", doc)
  ELSE IF doc.status # "Approved" THEN Fail("InvalidState", doc)
  ELSE IF Falsy(amount) \/ amount <= 0 THEN Fail("InvalidAmount", doc)
  ELSE IF amount > ReconcileOnWrite(doc).remainingAmount
       THEN Exceeds(doc, ReconcileOnWrite(doc).remainingAmount)
  ELSE Saved(PushRepayment(ReconcileOnWrite(doc), amount, txn, method))

RepayResult(doc, actor, amount, txn, method) ==
  For(amount, RepayChecks(doc, actor, amount, txn, method))

\* POST /payments/confirm, type = repayment: lines 156-173
ConfirmRepayment(doc, txn, amount) ==
  LET repaymentAmount == Div(amount, Num(100))
      d1 == [doc EXCEPT !.repayments = Append(doc.repayments,
                 [amount |-> repaymentAmount, transactionId |-> txn,
                  paymentMethod |-> "Stripe"])]
      d2 == [d1 EXCEPT !.paidAmount = d1.paidAmount + repaymentAmount]
      d3 == [d2 EXCEPT !.remainingAmount = d2.totalAmount - d2.paidAmount]
  IN  IF d3.remainingAmount <= 0
      THEN [d3 EXCEPT !.repaymentStatus = "Complete", !.remainingAmount = 0]
      ELSE [d3 EXCEPT !.repaymentStatus = "In Progress"]

\* Faulty variant: a fee confirm that also counts the fee as a repayment
ConfirmFeeCountsAsPaid(doc, txn, amount) ==
  [doc EXCEPT !.applicationFeeStatus = "Paid",
              !.paymentDetails = [transactionId |-> txn, amount |-> Div(amount, Num(100))],
              !.paidAmount = @ + Div(amount, Num(100))]

\* POST /payments/confirm, any other type: lines 175-181
ConfirmFee(doc, txn, amount) ==
  [doc EXCEPT !.applicationFeeStatus = "Paid",
              !.paymentDetails = [transactionId |-> txn, amount |-> Div(amount, Num(100))]]

ConfirmResult(doc, txn, amount, type) ==
  IF type = "repayment" THEN Saved(ConfirmRepayment(doc, txn, amount))
  ELSE Saved(ConfirmFee(doc, txn, amount))

\* stripe.paymentIntents.create({amount, currency: 'usd', ..}): Stripe takes
\* a positive whole number of cents and throws on anything else, and a
\* well-formed request can still fail (network, key); a throw is the 500 of
\* the catch block
CreateAtGateway(doc, amount, outcome) ==
  IF outcome = "created" /\ amount >= Num(1) /\ amount % FixedPoint = 0
  THEN Secret(doc, amount)
  ELSE Fail("GatewayError", doc)

\* Faulty variants of the intent handlers: a fee intent that marks the fee
\* Paid as it is created, a fee intent without the already-paid check, and a
\* repayment intent without the balance check.
FeeIntentMarksPaid(doc, actor, outcome) ==
  IF ~IsOwner(doc, actor) THEN Fail("Forbidden", doc)
  ELSE IF doc.applicationFeeStatus = "Paid" THEN Fail("InvalidState", doc)
  ELSE [Secret(ConfirmFee(doc, "", Num(ApplicationFee)), Num(ApplicationFee))
          EXCEPT !.save = TRUE]

FeeIntentAlways(doc, actor, outcome) ==
  IF ~IsOwner(doc, actor) THEN Fail("Forbidden", doc)
  ELSE CreateAtGateway(doc, Num(ApplicationFee), outcome)

RepaymentIntentNoLimit(doc, actor, amount, outcome) ==
  IF ~IsOwner(doc, actor) THEN Fail("Forbidden", doc)
  ELSE IF doc.status # "Approved" THEN Fail("InvalidState", doc)
  ELSE CreateAtGateway(doc, amount, outcome)

\* POST /payments/create-intent: lines 60-80, after findById
FeeIntentResult(doc, actor, outcome) ==
  IF ~IsOwner(doc, actor) THEN Fail("Forbidden", doc)
  ELSE IF doc.applicationFeeStatus = "Paid" THEN Fail("InvalidState", doc)
  ELSE CreateAtGateway(doc, Num(ApplicationFee), outcome)

\* POST /payments/create-repayment-intent: lines 111-133, after findById
RepaymentIntentChecks(doc, actor, amount, outcome) ==
  IF ~IsOwner(doc, actor) THEN Fail("Forbidden", doc)
  ELSE IF doc.status # "Approved" THEN Fail("InvalidState", doc)
  ELSE IF amount > Mul(doc.remainingAmount, Num(100)) THEN Fail("InvalidAmount", doc)
  ELSE CreateAtGateway(doc, amount, outcome)

RepaymentIntentResult(doc, actor, amount, outcome) ==
  For(amount, RepaymentIntentChecks(doc, actor, amount, outcome))

\* application.save(): mongoose writes the paths the handler modified ($set)
\* and the array elements it pushed ($push) onto the stored document
Save(stored, read, next) ==
  [f \in DOMAIN stored |->
     IF f = "repayments"
     THEN stored.repayments \o SubSeq(next.repayments, Len(read.repayments) + 1,
                                      Len(next.repayments))
     ELSE IF next[f] # read[f] THEN next[f] ELSE stored[f]]

\* ------------------------------------------- requests served one at a time
Answer(op, a, err) ==
  resp' = [NoResp EXCEPT !.op = op, !.app = a, !.err = err]

\* res.json / res.status(..).json of a handler that found the application
AnswerOf(op, a, res) ==
  resp' = [op |-> op, app |-> a, err |-> res.err,
           amount |-> res.amount, max |-> res.max, intent |-> res.intent,
           shown |-> res.shown]

\* findById, the handler and its save() with no other request in between
Serve(op, a, res) ==
  /\ db' = IF res.save THEN [db EXCEPT ![a] = Save(db[a], db[a], res.doc)] ELSE db
  /\ AnswerOf(op, a, res)
  /\ UNCHANGED << nextId, inflight, stripe, conn >>

Refuse(op, a, err) ==
  /\ Answer(op, a, err)
  /\ UNCHANGED << db, nextId, inflight, stripe, conn >>

\* POST /applications
CreateApplication(actor, terms, extra) ==
  /\ nextId <= MaxApps
  /\ IF actor.role # "borrower" THEN Refuse("create", nextId, "Forbidden")
     ELSE IF ~Validate(NewDocument(terms, extra, actor.userId))
          THEN Refuse("create", nextId, "ServerError")
          ELSE /\ db' = [a \in DOMAIN db \cup {nextId} |->
                           IF a = nextId THEN NewDocument(terms, extra, actor.userId)
                           ELSE db[a]]
               /\ nextId' = nextId + 1
               /\ Answer("create", nextId, "OK")
               /\ UNCHANGED << inflight, stripe, conn >>

\* Faulty variant: the status change that looks the application up before
\* it checks the role
UpdateStatusReadsFirst(a, actor, status) ==
  IF a \notin DOMAIN db THEN Refuse("status", a, "NotFound")
  ELSE IF ~IsAdminOrManager(actor) THEN Refuse("status", a, "Forbidden")
  ELSE Serve("status", a, StatusResult(db[a], status))

\* PATCH /applications/:id/status
UpdateStatus(a, actor, status) ==
  IF ~IsAdminOrManager(actor) THEN Refuse("status", a, "Forbidden")
  ELSE IF a \notin DOMAIN db THEN Refuse("status", a, "NotFound")
  ELSE Serve("status", a, StatusResult(db[a], status))

\* Faulty variant: the cancel without the Pending check
CancelAnyStatus(a, actor) ==
  IF a \notin DOMAIN db THEN Refuse("cancel", a, "NotFound")
  ELSE IF ~IsOwner(db[a], actor) THEN Refuse("cancel", a, "Forbidden")
  ELSE /\ db' = [b \in DOMAIN db \ {a} |-> db[b]]
       /\ Answer("cancel", a, "OK")
       /\ UNCHANGED << nextId, inflight, stripe, conn >>

\* DELETE /applications/:id
CancelApplication(a, actor) ==
  IF a \notin DOMAIN db THEN Refuse("cancel", a, "NotFound")
  ELSE IF ~IsOwner(db[a], actor) THEN Refuse("cancel", a, "Forbidden")
  ELSE IF db[a].status # "Pending" THEN Refuse("cancel", a, "InvalidState")
  ELSE /\ db' = [b \in DOMAIN db \ {a} |-> db[b]]
       /\ Answer("cancel", a, "OK")
       /\ UNCHANGED << nextId, inflight, stripe, conn >>

\* GET /repayments/:applicationId
GetRepayments(a, actor) ==
  IF a \notin DOMAIN db THEN Refuse("get", a, "NotFound")
  ELSE Serve("get", a, GetResult(db[a], actor))

\* POST /repayments/:applicationId
RecordRepayment(a, actor, amount, txn, method) ==
  IF a \notin DOMAIN db THEN Refuse("repay", a, "NotFound")
  ELSE /\ RepayResult(db[a], actor, amount, txn, method).save
            => Len(db[a].repayments) < MaxRepayments
       /\ Serve("repay", a, RepayResult(db[a], actor, amount, txn, method))

\* POST /payments/confirm
ConfirmPayment(a, actor, txn, amount, type) ==
  IF a \notin DOMAIN db THEN Refuse("confirm", a, "NotFound")
  ELSE /\ type = "repayment" => Len(db[a].repayments) < MaxRepayments
       /\ Serve("confirm", a, ConfirmResult(db[a], txn, amount, type))

\* Faulty variant: the fee intent that looks the application up before it
\* checks that the gateway is configured
CreateIntentReadsFirst(a, actor, outcome) ==
  IF a \notin DOMAIN db THEN Refuse("fee-intent", a, "NotFound")
  ELSE IF ~stripe THEN Refuse("fee-intent", a, "GatewayUnavailable")
  ELSE Serve("fee-intent", a, FeeIntentResult(db[a], actor, outcome))

\* POST /payments/create-intent
CreateIntent(a, actor, outcome) ==
  IF ~stripe THEN Refuse("fee-intent", a, "GatewayUnavailable")
  ELSE IF a \notin DOMAIN db THEN Refuse("fee-intent", a, "NotFound")
  ELSE Serve("fee-intent", a, FeeIntentResult(db[a], actor, outcome))

\* POST /payments/create-repayment-intent
CreateRepaymentIntent(a, actor, amount, outcome) ==
  IF ~stripe THEN Refuse("repay-intent", a, "GatewayUnavailable")
  ELSE IF Falsy(amount) THEN Refuse("repay-intent", a, "InvalidAmount")
  ELSE IF a \notin DOMAIN db THEN Refuse("repay-intent", a, "NotFound")
  ELSE Serve("repay-intent", a, RepaymentIntentResult(db[a], actor, amount, outcome))

\* the requests the server can receive, one served at a time
Requesting(extras, confirmAmounts) ==
  \/ \E actor \in Actors, terms \in Terms, extra \in extras :
        CreateApplication(actor, terms, extra)
  \/ \E a \in AppIds, actor \in Actors, status \in StatusInputs :
        UpdateStatus(a, actor, status)
  \/ \E a \in AppIds, actor \in Actors : CancelApplication(a, actor)
  \/ \E a \in AppIds, actor \in Actors : GetRepayments(a, actor)
  \/ \E a \in AppIds, actor \in Actors, amount \in DirectAmounts,
        txn \in TxnIds, method \in PaymentMethods :
        RecordRepayment(a, actor, amount, txn, method)
  \/ \E a \in AppIds, actor \in Actors, type \in PaymentTypes :
        \E txn \in IF type = "repayment" THEN TxnIds ELSE FeeTxnIds,
           amount \in IF type = "repayment" THEN confirmAmounts ELSE FeeAmounts :
           ConfirmPayment(a, actor, txn, amount, type)

\* any request body the routes accept
Next == Requesting(Extras, ConfirmAmounts)

Spec == Init /\ [][Next]_vars

\* the requests of a client that sends only the documented fields of an
\* application and only positive gateway amounts
CleanExtras == { [x \in {} |-> 0] }
CleanConfirmAmounts == { Num(100), Num(300) }
CleanNext == Requesting(CleanExtras, CleanConfirmAmounts)

CleanSpec == Init /\ [][CleanNext]_vars

\* ------------------------------------- ledger and payment gateway routes
\* Deployments with and without STRIPE_SECRET_KEY; every route of the ledger
\* and of the gateway, any request body, for two borrowers, an admin and a
\* manager, with one transaction id and the default payment method.
GatewayInit == Blank /\ stripe \in BOOLEAN
GatewayActors == Actors
GatewayTxnIds == { "tx1" }

GatewayNext ==
  \/ \E actor \in GatewayActors, terms \in Terms, extra \in Extras :
        CreateApplication(actor, terms, extra)
  \/ \E a \in AppIds, actor \in GatewayActors, status \in StatusInputs :
        UpdateStatus(a, actor, status)
  \/ \E a \in AppIds, actor \in GatewayActors : CancelApplication(a, actor)
  \/ \E a \in AppIds, actor \in GatewayActors : GetRepayments(a, actor)
  \/ \E a \in AppIds, actor \in GatewayActors, amount \in DirectAmounts,
        txn \in GatewayTxnIds :
        RecordRepayment(a, actor, amount, txn, "")
  \/ \E a \in AppIds, actor \in GatewayActors, txn \in GatewayTxnIds,
        amount \in ConfirmAmounts :
        ConfirmPayment(a, actor, txn, amount, "repayment")
  \/ \E a \in AppIds, actor \in GatewayActors, txn \in FeeTxnIds, amount \in FeeAmounts :
        ConfirmPayment(a, actor, txn, amount, "applicationFee")
  \/ \E a \in AppIds, actor \in GatewayActors, outcome \in GatewayOutcomes :
        CreateIntent(a, actor, outcome)
  \/ \E a \in AppIds, actor \in GatewayActors, amount \in IntentAmounts,
        outcome \in GatewayOutcomes :
        CreateRepaymentIntent(a, actor, amount, outcome)

GatewaySpec == GatewayInit /\ [][GatewayNext]_vars

\* ------------------------------------------------ requests that interleave
\* Each handler awaits findById, runs to its save() and awaits that; another
\* request's steps can fall between the two.  A request in flight holds the
\* document it read and the document it is about to save.
ConcActors == { [userId |-> 1, role |-> "borrower"], [userId |-> 3, role |-> "admin"] }
ConcExtras == { [x \in {} |-> 0] }
ConcStatusInputs == { "Approved" }
ConcDirectAmounts == { Num(1), Num(3) }
ConcConfirmAmounts == { Num(100) }
ConcTxnIds == { "tx1" }
ConcPaymentMethods == { "" }
Requests == 1 .. MaxInFlight

\* findById and the handler up to, not including, save()
Begin(r, op, a, res) ==
  /\ inflight[r] = Idle
  /\ IF res.save
     THEN /\ inflight' = [inflight EXCEPT ![r] =
                 [op |-> op, app |-> a, read |-> db[a], next |-> res.doc,
                  amount |-> res.amount, shown |-> res.shown]]
          /\ UNCHANGED << db, nextId, resp, stripe, conn >>
     ELSE /\ AnswerOf(op, a, res)
          /\ UNCHANGED << db, nextId, inflight, stripe, conn >>

BeginStatus(r, a, actor, status) ==
  /\ IsAdminOrManager(actor)
  /\ a \in DOMAIN db
  /\ Begin(r, "status", a, StatusResult(db[a], status))

BeginRepayment(r, a, actor, amount, txn, method) ==
  /\ a \in DOMAIN db
  /\ Len(db[a].repayments) < MaxRepayments
  /\ Begin(r, "repay", a, RepayResult(db[a], actor, amount, txn, method))

BeginConfirm(r, a, txn, amount) ==
  /\ a \in DOMAIN db
  /\ Len(db[a].repayments) < MaxRepayments
  /\ Begin(r, "confirm", a, ConfirmResult(db[a], txn, amount, "repayment"))

\* Faulty variant: a save() that writes the modified paths to every
\* application of the collection
CommitEveryRecord(r) ==
  /\ inflight[r] # Idle
  /\ inflight' = [inflight EXCEPT ![r] = Idle]
  /\ LET q == inflight[r]
     IN  /\ db' = [b \in DOMAIN db |-> Save(db[b], q.read, q.next)]
         /\ AnswerOf(q.op, q.app, [Saved(q.next) EXCEPT !.amount = q.amount,
                                                        !.shown = q.shown])
  /\ UNCHANGED << nextId, stripe, conn >>

\* save() of a request in flight
Commit(r) ==
  /\ inflight[r] # Idle
  /\ inflight' = [inflight EXCEPT ![r] = Idle]
  /\ LET q == inflight[r]
     IN  IF q.app \in DOMAIN db
         THEN /\ db' = [db EXCEPT ![q.app] = Save(db[q.app], q.read, q.next)]
              /\ AnswerOf(q.op, q.app, [Saved(q.next) EXCEPT !.amount = q.amount,
                                                           !.shown = q.shown])
         ELSE /\ AnswerOf(q.op, q.app,
                           [Fail("ServerError", q.next) EXCEPT !.amount = q.amount])
              /\ UNCHANGED db
  /\ UNCHANGED << nextId, stripe, conn >>

ConcNext ==
  \/ \E actor \in ConcActors, terms \in Terms, extra \in ConcExtras :
        CreateApplication(actor, terms, extra)
  \/ \E r \in Requests, a \in AppIds, actor \in ConcActors, status \in ConcStatusInputs :
        BeginStatus(r, a, actor, status)
  \/ \E r \in Requests, a \in AppIds, actor \in ConcActors, amount \in ConcDirectAmounts,
        txn \in ConcTxnIds, method \in ConcPaymentMethods :
        BeginRepayment(r, a, actor, amount, txn, method)
  \/ \E r \in Requests, a \in AppIds, txn \in ConcTxnIds, amount \in ConcConfirmAmounts :
        BeginConfirm(r, a, txn, amount)
  \/ \E r \in Requests : Commit(r)

ConcSpec == Init /\ [][ConcNext]_vars

\* ------------------------------------------------------------ properties
Stored == DOMAIN db
Kept == DOMAIN db \cap DOMAIN db'

HasEntry(doc, txn, amount) ==
  \E i \in 1 .. Len(doc.repayments) :
     /\ doc.repayments[i].transactionId = txn
     /\ doc.repayments[i].amount = amount

IsPrefix(s, t) == Len(s) <= Len(t) /\ SubSeq(t, 1, Len(s)) = s

\* C1: a confirm (type repayment) of a positive amount whose transactionId and
\* amount are already in the application's repayments is a replay and applies
\* nothing: the ledger and paidAmount stay as they are.
C1_ConfirmReplayAppliesOnce ==
  [][\A a \in AppIds, txn \in TxnIds \ {""}, amount \in ConfirmAmounts :
       ( /\ a \in Stored
         /\ amount > 0
         /\ HasEntry(db[a], txn, Div(amount, Num(100)))
         /\ \E actor \in Actors : ConfirmPayment(a, actor, txn, amount, "repayment") )
       => /\ db'[a].repayments = db[a].repayments
          /\ db'[a].paidAmount = db[a].paidAmount]_vars

\* C2: a repayment against an Approved application is one atomic conditional
\* update: when its save() lands, paidAmount grows by exactly the amount it
\* accepted (nothing is lost or overwritten), and a direct repayment's amount
\* is within the balance that remains in the stored document at that moment.
C2_RepaymentIsAtomicUpdate ==
  [][\A r \in Requests :
       ( /\ inflight[r] # Idle
         /\ inflight[r].op \in {"repay", "confirm"}
         /\ inflight[r].app \in Stored
         /\ db[inflight[r].app].status = "Approved"
         /\ \A o \in Requests : inflight[o] # Idle => inflight[o].read.status = "Approved"
         /\ Commit(r) )
       => LET q == inflight[r]
              accepted == q.next.paidAmount - q.read.paidAmount
          IN  /\ db'[q.app].paidAmount = db[q.app].paidAmount + accepted
              /\ q.op = "repay" => accepted <= db[q.app].remainingAmount]_vars

\* C3: every stored application has paidAmount equal to the sum of the
\* amounts of its repayments.
C3_PaidIsSumOfRepayments ==
  \A a \in Stored : db[a].paidAmount = SumAmounts(db[a].repayments)

\* C4: every stored application has
\* remainingAmount = max(0, totalAmount - paidAmount).
C4_RemainingIsTotalMinusPaid ==
  \A a \in Stored : db[a].remainingAmount = Max0(db[a].totalAmount - db[a].paidAmount)

\* C5: a step that appends to an application's repayments starts from a
\* document whose status is Approved.
C5_AppendOnlyWhileApproved ==
  [][\A a \in Kept :
       Len(db'[a].repayments) > Len(db[a].repayments) => db[a].status = "Approved"]_vars

\* C6: an application whose status is Approved or Rejected stays stored with
\* that status, whatever request comes next.
C6_ApprovedAndRejectedAreFinal ==
  [][\A a \in Stored :
       db[a].status \in {"Approved", "Rejected"}
       => a \in DOMAIN db' /\ db'[a].status = db[a].status]_vars

\* C7: totalAmount changes only in the step that takes the status from Pending
\* to Approved, and then to loanAmount * (1 + interestRate/100).
C7_TotalSetOnceAtApproval ==
  [][\A a \in Kept :
       db'[a].totalAmount # db[a].totalAmount
       => /\ db[a].status = "Pending"
          /\ db'[a].status = "Approved"
          /\ db'[a].totalAmount = WithInterest(db[a].loanAmount, db[a].interestRate)]_vars

\* repaymentStatus as invariant 5 of the data model derives it
DerivedStatus(paidAmount, totalAmount) ==
  IF Max0(totalAmount - paidAmount) = 0 /\ totalAmount > 0 THEN "Complete"
  ELSE IF 0 < paidAmount /\ paidAmount < totalAmount THEN "In Progress"
  ELSE "Pending"

\* C8: every stored application's repaymentStatus is the status derived from
\* its paidAmount and totalAmount.
C8_StatusIsDerived ==
  \A a \in Stored :
     db[a].repaymentStatus = DerivedStatus(db[a].paidAmount, db[a].totalAmount)

Rank(repaymentStatus) ==
  IF repaymentStatus = "Pending" THEN 0
  ELSE IF repaymentStatus = "In Progress" THEN 1 ELSE 2

\* C9: no step moves an application's repaymentStatus backwards in the order
\* Pending, In Progress, Complete.
C9_StatusNeverRegresses ==
  [][\A a \in Kept :
       Rank(db'[a].repaymentStatus) >= Rank(db[a].repaymentStatus)]_vars

\* C10: every step keeps each application's repayments as a prefix of the new
\* repayments, appends only entries with amount > 0, does not lower paidAmount,
\* and does not remove an application that has repayments.
C10_LedgerAppendOnly ==
  [][\A a \in Stored :
       /\ db[a].repayments # << >> => a \in DOMAIN db'
       /\ a \in DOMAIN db' =>
            /\ IsPrefix(db[a].repayments, db'[a].repayments)
            /\ \A i \in Len(db[a].repayments) + 1 .. Len(db'[a].repayments) :
                  db'[a].repayments[i].amount > 0
            /\ db'[a].paidAmount >= db[a].paidAmount]_vars

\* allowed to read and repay (section 4.4)
Authorized(doc, actor) == IsOwner(doc, actor) \/ IsAdminOrManager(actor)

\* the balances section 4.1 calls canonical, for the ledger checks
Canonical(doc) ==
  LET total == WithInterest(doc.loanAmount, doc.interestRate)
      d1 == IF Falsy(doc.totalAmount) /\ doc.status = "Approved"
            THEN [doc EXCEPT !.totalAmount = total,
                             !.remainingAmount = Max0(total - doc.paidAmount)]
            ELSE doc
  IN  IF Falsy(d1.remainingAmount) \/ d1.remainingAmount < 0
      THEN [d1 EXCEPT !.remainingAmount = Max0(d1.totalAmount - d1.paidAmount)]
      ELSE d1

C12_NotApprovedRejected ==
  [][resp'.op = "repay" =>
     \A a \in Stored, actor \in GatewayActors, amount \in DirectAmounts,
        txn \in GatewayTxnIds, method \in { "" } :
       ( /\ resp'.amount = << amount >>
         /\ Authorized(db[a], actor)
         /\ db[a].status # "Approved"
         /\ RecordRepayment(a, actor, amount, txn, method) )
       => /\ resp'.err = "InvalidState"
          /\ db' = db]_vars

\* a Pending or Rejected application has just refused a positive repayment
C12_Witness ==
  \E a \in Stored :
     /\ db[a].status # "Approved"
     /\ resp.op = "repay" /\ resp.app = a /\ resp.err = "InvalidState"
     /\ resp.amount # << >>
     /\ resp.amount[1] > 0

\* the error section 4.2 gives a repayment: the first precondition that
\* fails, the balance being the one the handler's reconciliation arrives at
FirstFailure(doc, amount) ==
  IF doc.status # "Approved" THEN "InvalidState"
  ELSE IF amount <= 0 THEN "InvalidAmount"
  ELSE IF amount > ReconcileOnWrite(doc).remainingAmount THEN "InvalidAmount"
  ELSE "OK"

\* C13: a direct repayment by an authorized actor is answered with the error
\* of the first precondition that fails in the order status, amount > 0,
\* amount <= reconciled remainingAmount; the balance-exceeded message is
\* given only when the two earlier preconditions hold; a refused request
\* changes nothing.
C13_FirstFailureWins ==
  [][resp'.op = "repay" =>
     \A a \in Stored, actor \in GatewayActors, amount \in DirectAmounts,
        txn \in GatewayTxnIds, method \in { "" } :
       ( /\ resp'.amount = << amount >>
         /\ Authorized(db[a], actor)
         /\ RecordRepayment(a, actor, amount, txn, method) )
       => /\ resp'.err = FirstFailure(db[a], amount)
          /\ resp'.max # << >> <=> ( /\ db[a].status = "Approved"
                                      /\ amount > 0
                                      /\ amount > ReconcileOnWrite(db[a]).remainingAmount )
          /\ resp'.err # "OK" => db' = db]_vars

\* an application that is not Approved has just refused an amount that is not
\* positive, with InvalidState
C13_Witness ==
  \E a \in Stored :
     /\ db[a].status # "Approved"
     /\ resp.op = "repay" /\ resp.app = a /\ resp.err = "InvalidState"
     /\ resp.amount # << >>
     /\ resp.amount[1] <= 0

\* C14: a step that appends entries to the repayments of an Approved
\* application whose stored remainingAmount is totalAmount - paidAmount (every
\* request in flight being a repayment that read it as Approved) leaves, in the same stored document, paidAmount raised by the
\* appended amounts, remainingAmount = max(0, totalAmount - paidAmount) and
\* the repaymentStatus that goes with that balance: no stored state has the
\* entry with a balance field as it was before the repayment.
C14_EntryAndBalancesTogether ==
  [][\A a \in Kept :
       ( /\ Len(db'[a].repayments) > Len(db[a].repayments)
         /\ db[a].status = "Approved"
         /\ db[a].remainingAmount = Max0(db[a].totalAmount - db[a].paidAmount)
         /\ \A o \in Requests :
               inflight[o] # Idle => /\ inflight[o].op \in {"repay", "confirm"}
                                     /\ inflight[o].read.status = "Approved" )
       => LET appended == SubSeq(db'[a].repayments, Len(db[a].repayments) + 1,
                                 Len(db'[a].repayments))
          IN  /\ db'[a].paidAmount = db[a].paidAmount + SumAmounts(appended)
              /\ db'[a].remainingAmount = Max0(db'[a].totalAmount - db'[a].paidAmount)
              /\ db'[a].repaymentStatus =
                    IF db'[a].remainingAmount = 0 THEN "Complete" ELSE "In Progress"]_vars

\* C15: when an Approved application is Complete with remainingAmount 0, a
\* repayment of a positive amount, sent to the repayments route by an
\* authorized actor or confirmed through the gateway route by the owner, is
\* answered with InvalidAmount and the stored applications are exactly as
\* before.
C15_CompleteRejectsRepayments ==
  [][resp'.op \in {"repay", "confirm"} =>
     \A a \in Stored :
       ( /\ db[a].status = "Approved"
         /\ db[a].repaymentStatus = "Complete"
         /\ db[a].remainingAmount = 0
         /\ \E actor \in Actors, txn \in TxnIds :
               \/ \E amount \in DirectAmounts, method \in PaymentMethods :
                     /\ amount > 0
                     /\ Authorized(db[a], actor)
                     /\ RecordRepayment(a, actor, amount, txn, method)
               \/ \E amount \in ConfirmAmounts \cup CleanConfirmAmounts :
                     /\ amount > 0
                     /\ IsOwner(db[a], actor)
                     /\ ConfirmPayment(a, actor, txn, amount, "repayment") )
       => /\ resp'.err = "InvalidAmount"
          /\ db' = db]_vars

\* C16: a confirm of type repayment sent by the owner is answered as
\* recordRepayment answers the amount in major units (amount / 100):
\* InvalidState when the application is not Approved, InvalidAmount when the
\* converted amount is not positive or is above the reconciled
\* remainingAmount, and a refused confirm changes nothing.
C16_ConfirmChecksLikeRepayment ==
  [][resp'.op = "confirm" =>
     \A a \in Stored, actor \in Actors, txn \in TxnIds,
        amount \in ConfirmAmounts \cup CleanConfirmAmounts :
       ( /\ IsOwner(db[a], actor)
         /\ ConfirmPayment(a, actor, txn, amount, "repayment") )
       => /\ resp'.err = FirstFailure(db[a], Div(amount, Num(100)))
          /\ resp'.err # "OK" => db' = db]_vars

\* C17: a confirm sent by an actor who is not the owner of the application
\* (a fee confirm, or a repayment confirm the ledger would accept from the
\* owner) is answered with Forbidden and the stored applications are exactly
\* as before.
C17_ConfirmOnlyByOwner ==
  [][resp'.op = "confirm" =>
     \A a \in Stored, actor \in Actors, type \in PaymentTypes,
        txn \in TxnIds \cup FeeTxnIds,
        amount \in ConfirmAmounts \cup CleanConfirmAmounts \cup FeeAmounts :
       ( /\ ~IsOwner(db[a], actor)
         /\ type = "repayment" => FirstFailure(db[a], Div(amount, Num(100))) = "OK"
         /\ ConfirmPayment(a, actor, txn, amount, type) )
       => /\ resp'.err = "Forbidden"
          /\ db' = db]_vars

\* C18: a create-intent or create-repayment-intent request, answered with a
\* client secret or with any error, leaves every stored application exactly
\* as it was.
C18_IntentsLeaveLedger ==
  [][( /\ resp'.op \in {"fee-intent", "repay-intent"}
       /\ \/ \E a \in AppIds, actor \in GatewayActors, outcome \in GatewayOutcomes :
               CreateIntent(a, actor, outcome)
          \/ \E a \in AppIds, actor \in GatewayActors, amount \in IntentAmounts,
               outcome \in GatewayOutcomes :
               CreateRepaymentIntent(a, actor, amount, outcome) )
     => db' = db]_vars

\* an intent has just been created for an application with a balance and a
\* ledger entry
C18_Witness ==
  \E a \in Stored :
     /\ resp.op = "repay-intent" /\ resp.app = a
     /\ resp.intent # << >>
     /\ db[a].repayments # << >>
     /\ db[a].remainingAmount > 0

C20_FeeIntentOnlyWhileUnpaid ==
  [][/\ \A a \in Kept :
          db[a].applicationFeeStatus = "Paid" => db'[a].applicationFeeStatus = "Paid"
     /\ resp'.op = "fee-intent" =>
          \A a \in AppIds, actor \in GatewayActors, outcome \in GatewayOutcomes :
            CreateIntent(a, actor, outcome)
            => /\ resp'.err = "OK" <=> resp'.intent # << >>
               /\ resp'.intent # << >>
                    => /\ resp'.intent = << Num(1000) >>
                       /\ a \in Stored
                       /\ db[a].applicationFeeStatus # "Paid"]_vars

\* the owner of an application whose fee a confirm has marked Paid has just
\* been refused a fee intent
C20_Witness ==
  \E a \in Stored :
     /\ db[a].applicationFeeStatus = "Paid"
     /\ db[a].paymentDetails.transactionId # ""
     /\ resp.op = "fee-intent" /\ resp.app = a /\ resp.err = "InvalidState"

\* the repayment balance of an application, and its intake fee
LedgerPart(doc) ==
  << doc.repayments, doc.paidAmount, doc.remainingAmount, doc.totalAmount,
     doc.repaymentStatus >>
FeePart(doc) == << doc.applicationFeeStatus, doc.paymentDetails >>

\* C21: a confirm of type applicationFee sets applicationFeeStatus to Paid and
\* paymentDetails to the transaction and the amount in major units, and
\* leaves repayments, paidAmount, remainingAmount, totalAmount and
\* repaymentStatus as they were; a repayment, direct or confirmed, leaves
\* applicationFeeStatus and paymentDetails as they were.
C21_FeeApartFromBalance ==
  [][resp'.op \in {"confirm", "repay"} =>
     \A a \in Stored, actor \in GatewayActors, txn \in GatewayTxnIds :
       /\ \A amount \in FeeAmounts :
             ConfirmPayment(a, actor, txn, amount, "applicationFee")
             => /\ db'[a].applicationFeeStatus = "Paid"
                /\ db'[a].paymentDetails =
                      [transactionId |-> txn, amount |-> amount \div 100]
                /\ LedgerPart(db'[a]) = LedgerPart(db[a])
       /\ \A amount \in ConfirmAmounts :
             ConfirmPayment(a, actor, txn, amount, "repayment")
             => FeePart(db'[a]) = FeePart(db[a])
       /\ \A amount \in DirectAmounts :
             RecordRepayment(a, actor, amount, txn, "")
             => FeePart(db'[a]) = FeePart(db[a])]_vars

\* a fee has just been confirmed on an application that has repayments
C21_Witness ==
  \E a \in Stored :
     /\ resp.op = "confirm" /\ resp.app = a /\ resp.err = "OK"
     /\ db[a].applicationFeeStatus = "Paid"
     /\ db[a].paymentDetails.amount = Num(10)
     /\ db[a].repayments # << >>
     /\ db[a].paidAmount > 0

\* C22: a read or a repayment of a stored application is answered Forbidden
\* exactly when the actor is neither its owner nor an admin or manager; a
\* Forbidden answer reports no balance and leaves the stored applications as
\* they were, the backfill included.
C22_ReadAndRepayGuard ==
  [][resp'.op \in {"get", "repay"} =>
     \A a \in Stored, actor \in GatewayActors :
       ( \/ GetRepayments(a, actor)
         \/ \E amount \in DirectAmounts, txn \in GatewayTxnIds :
               RecordRepayment(a, actor, amount, txn, "") )
       => /\ resp'.err = "Forbidden"
               <=> ~(db[a].userId = actor.userId \/ actor.role \in {"admin", "manager"})
          /\ resp'.err = "Forbidden" => /\ resp'.shown = << >>
                                         /\ db' = db]_vars

\* a borrower who is not the owner has just been refused the read of an
\* Approved record that the backfill would have written
C22_Witness ==
  \E a \in Stored :
     /\ resp.op = "get" /\ resp.app = a /\ resp.err = "Forbidden"
     /\ db[a].status = "Approved"
     /\ db[a].totalAmount = 0

\* C23: an application that a create request has just stored has status
\* Pending, totalAmount, paidAmount and remainingAmount 0, no repayments and
\* repaymentStatus Pending, whatever the request body held.
C23_CreatedPendingAndZero ==
  [][\A a \in DOMAIN db' \ DOMAIN db :
       /\ db'[a].status = "Pending"
       /\ db'[a].totalAmount = 0
       /\ db'[a].paidAmount = 0
       /\ db'[a].remainingAmount = 0
       /\ db'[a].repayments = << >>
       /\ db'[a].repaymentStatus = "Pending"]_vars

\* C24: a cancel of a stored application by anyone but its owner is answered
\* Forbidden, a cancel by the owner of an application that is not Pending is
\* answered InvalidState, and both leave the stored applications as they
\* were; the application is removed, and the answer is OK, exactly when the
\* owner cancels it while Pending; no other request removes an application.
C24_CancelGuard ==
  [][/\ Stored \ DOMAIN db' # {} => resp'.op = "cancel"
     /\ resp'.op = "cancel" =>
          \A a \in Stored, actor \in GatewayActors :
            CancelApplication(a, actor)
            => /\ db[a].userId # actor.userId
                    => resp'.err = "Forbidden" /\ db' = db
               /\ db[a].userId = actor.userId /\ db[a].status # "Pending"
                    => resp'.err = "InvalidState" /\ db' = db
               /\ a \notin DOMAIN db'
                    <=> db[a].userId = actor.userId /\ db[a].status = "Pending"
               /\ resp'.err = "OK" <=> a \notin DOMAIN db']_vars

\* the cancel of an Approved application with repayments has just been
\* refused
C24_Witness ==
  \E a \in Stored :
     /\ resp.op = "cancel" /\ resp.app = a /\ resp.err = "InvalidState"
     /\ db[a].status = "Approved"
     /\ db[a].repayments # << >>

\* C25: a create by a caller whose role is not borrower, and a status change
\* by a caller whose role is neither admin nor manager, is answered Forbidden
\* whether or not the application exists and leaves the stored applications
\* as they were; an application is added only by a borrower's create and the
\* status of a stored application changes only by an admin's or manager's
\* status change.
C25_RoleGuards ==
  [][/\ DOMAIN db' \ DOMAIN db # {} => resp'.op = "create"
     /\ (\E a \in Stored \cap DOMAIN db' : db'[a].status # db[a].status)
          => resp'.op = "status"
     /\ resp'.op = "create" =>
          \A actor \in GatewayActors, terms \in Terms, extra \in Extras :
            CreateApplication(actor, terms, extra)
            => /\ actor.role # "borrower"
                    => resp'.err = "Forbidden" /\ db' = db
               /\ db' # db => actor.role = "borrower"
     /\ resp'.op = "status" =>
          \A a \in AppIds, actor \in GatewayActors, status \in StatusInputs :
            UpdateStatus(a, actor, status)
            => /\ actor.role \notin {"admin", "manager"}
                    => resp'.err = "Forbidden" /\ db' = db
               /\ db' # db => actor.role \in {"admin", "manager"}]_vars

\* a status change for an application that does not exist has just been
\* refused for the caller's role
C25_Witness ==
  /\ resp.op = "status" /\ resp.err = "Forbidden"
  /\ resp.app \notin Stored

\* principal plus interest, in hundredths, computed from the terms
Owed(doc) == doc.loanAmount + (doc.loanAmount * doc.interestRate) \div (100 * FixedPoint)

\* the ledger of an application that has just been approved for the first
\* time: balances from the terms, nothing paid
FreshlyApproved(doc) ==
  /\ doc.status = "Approved"
  /\ doc.totalAmount = Owed(doc)
  /\ doc.remainingAmount = doc.totalAmount
  /\ doc.repaymentStatus = "Pending"
  /\ doc.paidAmount = 0
  /\ doc.repayments = << >>

\* C26: the approval of a Pending application stores totalAmount =
\* loanAmount + loanAmount * interestRate / 100, remainingAmount = totalAmount
\* and repaymentStatus Pending (1000 at 10% gives 1100); an accepted direct
\* repayment of amount a on the application as the first approval left it
\* stores paidAmount = a and remainingAmount = totalAmount - a, leaves
\* totalAmount alone, and stores In Progress when a < totalAmount.
C26_ApprovalThenRepayment ==
  [][(resp'.op \in {"status", "repay"} /\ resp'.err = "OK") =>
       /\ WithInterest(Num(1000), Num(10)) = Num(1100)
       /\ \A a \in Stored, actor \in GatewayActors :
            /\ (UpdateStatus(a, actor, "Approved") /\ db[a].status = "Pending")
                 => /\ db'[a].status = "Approved"
                    /\ db'[a].totalAmount = Owed(db[a])
                    /\ db'[a].remainingAmount = db'[a].totalAmount
                    /\ db'[a].repaymentStatus = "Pending"
            /\ \A amount \in DirectAmounts :
                 (RecordRepayment(a, actor, amount, "tx1", "") /\ FreshlyApproved(db[a]))
                 => /\ db'[a].paidAmount = amount
                    /\ db'[a].totalAmount = db[a].totalAmount
                    /\ db'[a].remainingAmount = db[a].totalAmount - amount
                    /\ Len(db'[a].repayments) = 1
                    /\ amount < db[a].totalAmount
                         => db'[a].repaymentStatus = "In Progress"]_vars

\* a first repayment of 1.00 on the application approved at 2.00 and 50%
\* has just been recorded: 3.00 owed, 1.00 paid, 2.00 remaining
C26_Witness ==
  \E a \in Stored :
     /\ resp.op = "repay" /\ resp.app = a /\ resp.err = "OK"
     /\ db[a].loanAmount = Num(2) /\ db[a].interestRate = Num(50)
     /\ db[a].totalAmount = Num(3)
     /\ db[a].paidAmount = Num(1)
     /\ db[a].remainingAmount = Num(2)
     /\ db[a].repaymentStatus = "In Progress"
     /\ Len(db[a].repayments) = 1

\* ------------------------------------------------- records to reconcile
\* Records as the collection can hold them when a request arrives: written
\* before the balance fields existed (the schema defaults give 0), or with
\* any balance a create body or a confirmation left in them.
LegacyTerms == Terms \cup { [loanAmount |-> Num(2), interestRate |-> 0] }
LegacyStatuses == { "Pending", "Approved" }
LegacyTotals == { 0, Num(2), Num(3) }
LegacyPaid == { 0, Num(1), Num(4) }
LegacyRemaining == { Num(0 - 1), 0, Num(2), Num(3) }
LegacyRecords ==
  { NewDocument(terms, [status |-> s, totalAmount |-> t, paidAmount |-> p,
                        remainingAmount |-> r], 1) :
      terms \in LegacyTerms, s \in LegacyStatuses, t \in LegacyTotals,
      p \in LegacyPaid, r \in LegacyRemaining }

ReconcileInit ==
  /\ \E x \in LegacyRecords : db = [a \in AppIds |-> x]
  /\ nextId = MaxApps + 1
  /\ resp = NoResp
  /\ inflight = [r \in 1 .. MaxInFlight |-> Idle]
  /\ stripe = TRUE
  /\ conn = Connected

\* the two routes that reconcile
ReconcileNext ==
  \/ \E a \in AppIds, actor \in Actors : GetRepayments(a, actor)
  \/ \E a \in AppIds, actor \in Actors, amount \in DirectAmounts :
        RecordRepayment(a, actor, amount, "tx1", "")

ReconcileSpec == ReconcileInit /\ [][ReconcileNext]_vars

\* reconciling a reconciled record gives the record again, on the read path
\* (what it persists and what it reports) and on the repayment path
IdempotentOn(x) ==
  /\ ReadBackfill(ReadBackfill(x)) = ReadBackfill(x)
  /\ ReadTotal(ReadBackfill(x)) = ReadTotal(x)
  /\ ReadRemaining(ReadBackfill(x)) = ReadRemaining(x)
  /\ ReconcileOnWrite(ReconcileOnWrite(x)) = ReconcileOnWrite(x)

\* C27: for every stored application x, reconciling the reconciled x gives
\* the reconciled x, on the read path and on the repayment path; and after
\* every answered GET /repayments/:applicationId a second GET on the record
\* it left would change no persisted field and report the same totalAmount
\* and remainingAmount.
C27_ReconcileIdempotent ==
  /\ [](\A a \in Stored : IdempotentOn(db[a]))
  /\ [][(resp'.op = "get" /\ resp'.err = "OK") =>
          \A a \in Stored, actor \in Actors :
            GetRepayments(a, actor)
            => LET again == GetResult(db'[a], actor)
               IN  /\ again.err = "OK"
                   /\ again.shown = resp'.shown
                   /\ Save(db'[a], db'[a], again.doc) = db'[a]]_vars

\* the read has just backfilled an approved record of 2.00 at 50% with 1.00
\* paid: it holds and reports 3.00 owed
C27_Witness ==
  \E a \in Stored :
     /\ resp.op = "get" /\ resp.app = a /\ resp.err = "OK"
     /\ db[a].status = "Approved"
     /\ db[a].totalAmount = Num(3) /\ db[a].paidAmount = Num(1)
     /\ db[a].remainingAmount = Num(3)
     /\ resp.shown = << Num(3), Num(3) >>

\* C28: a GET /repayments/:applicationId answered for an Approved record
\* whose totalAmount and remainingAmount are unset stores totalAmount =
\* loanAmount + loanAmount * interestRate / 100 and remainingAmount =
\* max(0, totalAmount - paidAmount), whatever paidAmount is, and reports the
\* pair of values the repayment path derives from the same record.
C28_BackfillFromPaid ==
  [][(resp'.op = "get" /\ resp'.err = "OK") =>
       \A a \in Stored, actor \in Actors :
         ( /\ GetRepayments(a, actor)
           /\ db[a].status = "Approved"
           /\ Falsy(db[a].totalAmount) /\ Falsy(db[a].remainingAmount) )
         => /\ db'[a].totalAmount = Owed(db[a])
            /\ db'[a].remainingAmount = Max0(Owed(db[a]) - db[a].paidAmount)
            /\ resp'.shown = << ReconcileOnWrite(db[a]).totalAmount,
                                ReconcileOnWrite(db[a]).remainingAmount >>]_vars

\* C29: a GET /repayments/:applicationId answered for a record that is not
\* Approved, with totalAmount unset and nothing paid, stores nothing and
\* reports totalAmount 0 and remainingAmount = loanAmount.
C29_UnapprovedShowsPrincipal ==
  [][(resp'.op = "get" /\ resp'.err = "OK") =>
       \A a \in Stored, actor \in Actors :
         ( /\ GetRepayments(a, actor)
           /\ db[a].status # "Approved"
           /\ Falsy(db[a].totalAmount) /\ Falsy(db[a].remainingAmount)
           /\ db[a].paidAmount = 0 )
         => /\ db' = db
            /\ resp'.shown = << 0, db[a].loanAmount >>]_vars

\* C30: a request to the repayment routes, the payment routes or the status
\* route that is answered NotFound, Forbidden, InvalidState or InvalidAmount
\* leaves every stored application as it was.
C30_RefusalsLeaveRecords ==
  [][( /\ resp'.op \in {"get", "repay", "confirm", "fee-intent",
                        "repay-intent", "status"}
       /\ resp'.err \in {"NotFound", "Forbidden", "InvalidState",
                         "InvalidAmount"} )
     => db' = db]_vars

\* a repayment above the balance has just been refused on an approved record
\* whose totalAmount is still unset: the balance the handler reconciled in
\* memory was not saved
C30_Witness ==
  \E a \in Stored :
     /\ resp.op = "repay" /\ resp.app = a /\ resp.err = "InvalidAmount"
     /\ resp.max # << >>
     /\ db[a].status = "Approved"
     /\ db[a].totalAmount = 0 /\ db[a].remainingAmount = 0

\* C31: while the gateway is not configured every create-intent and
\* create-repayment-intent request is answered GatewayUnavailable, whether
\* or not the application exists and whoever asks, and no other request is;
\* a request that passes the handler's checks and is rejected by the gateway
\* is answered GatewayError; both answers leave the stored applications as
\* they were.
C31_GatewayFailures ==
  [][resp'.op \in {"fee-intent", "repay-intent"} =>
       /\ ~stripe => resp'.err = "GatewayUnavailable"
       /\ resp'.err = "GatewayUnavailable" => ~stripe
       /\ resp'.err \in {"GatewayUnavailable", "GatewayError"} => db' = db
       /\ \A a \in Stored, actor \in GatewayActors :
            /\ ( /\ CreateIntent(a, actor, "failed")
                 /\ stripe /\ db[a].userId = actor.userId
                 /\ db[a].applicationFeeStatus # "Paid" )
                 => resp'.err = "GatewayError"
            /\ \A amount \in IntentAmounts :
                 ( /\ CreateRepaymentIntent(a, actor, amount, "failed")
                   /\ stripe /\ amount # 0 /\ db[a].userId = actor.userId
                   /\ db[a].status = "Approved"
                   /\ amount <= db[a].remainingAmount * 100 )
                 => resp'.err = "GatewayError"]_vars

\* a fee intent for an application that does not exist has just been
\* refused because the gateway is not configured
C31_Witness ==
  /\ ~stripe
  /\ resp.op = "fee-intent" /\ resp.err = "GatewayUnavailable"
  /\ resp.app \notin Stored

\* the gateway has just rejected a repayment intent that the handler let
\* through
C31_Rejected ==
  \E a \in Stored :
     /\ resp.op = "repay-intent" /\ resp.app = a /\ resp.err = "GatewayError"
     /\ db[a].status = "Approved"

\* ---------------------------------------------------- two applications
\* Two applications of one borrower, each as the create left it or as an
\* approved record written before the balance fields existed, and requests
\* on both served concurrently.
PairIds == 1 .. (MaxApps + 1)
PairRecords ==
  { NewDocument(terms, extra, 1) :
      terms \in Terms, extra \in { [x \in {} |-> 0], [status |-> "Approved"] } }

PairInit ==
  /\ db \in [PairIds -> PairRecords]
  /\ nextId = MaxApps + 2
  /\ resp = NoResp
  /\ inflight = [r \in Requests |-> Idle]
  /\ stripe = TRUE
  /\ conn = Connected

\* GET /repayments/:applicationId up to, not including, save()
BeginRead(r, a, actor) ==
  /\ a \in DOMAIN db
  /\ Begin(r, "get", a, GetResult(db[a], actor))

\* the borrower who owns both, and an admin for the status changes
PairOwner == [userId |-> 1, role |-> "borrower"]
PairAdmin == [userId |-> 3, role |-> "admin"]
PairDirectAmounts == { Num(1) }
PairConfirmAmounts == { Num(100) }

\* one request at a time on each application, the requests on different
\* applications interleaved (two requests on one application: ConcSpec)
PairNext ==
  \/ \E a \in PairIds \cap Requests : BeginStatus(a, a, PairAdmin, "Approved")
  \/ \E a \in PairIds \cap Requests, amount \in PairDirectAmounts :
        BeginRepayment(a, a, PairOwner, amount, "tx1", "")
  \/ \E a \in PairIds \cap Requests, amount \in PairConfirmAmounts :
        BeginConfirm(a, a, "tx1", amount)
  \/ \E a \in PairIds \cap Requests : BeginRead(a, a, PairOwner)
  \/ \E a \in PairIds : CancelApplication(a, PairOwner)
  \/ \E r \in Requests : Commit(r)

PairSpec == PairInit /\ [][PairNext]_vars

\* the step is a status change, repayment, confirmation, reconciling read
\* or cancel addressed to application a, or the save() of one
AddressedTo(a) ==
  \/ \E r \in Requests : Commit(r) /\ inflight[r].app = a
  \/ CancelApplication(a, PairOwner)
  \/ \E r \in Requests :
        \/ BeginRead(r, a, PairOwner)
        \/ BeginStatus(r, a, PairAdmin, "Approved")
        \/ \E amount \in PairDirectAmounts :
              BeginRepayment(r, a, PairOwner, amount, "tx1", "")
        \/ \E amount \in PairConfirmAmounts : BeginConfirm(r, a, "tx1", amount)

\* C32: a status change, repayment, confirmation, reconciling read or cancel
\* addressed to one application, and the save() that completes it, leaves
\* every other stored application stored and equal in every field, whatever
\* other requests are in flight.
C32_ApplicationsIndependent ==
  [][db' # db =>
       \A a \in PairIds, b \in DOMAIN db :
         (a # b /\ AddressedTo(a)) => (b \in DOMAIN db' /\ db'[b] = db[b])]_vars

\* a repayment on the first application has just been saved while a request
\* on the second is in flight, and the second has a repayment of its own
C32_Witness ==
  /\ resp.op = "repay" /\ resp.app = 1 /\ resp.err = "OK"
  /\ 1 \in Stored /\ 2 \in Stored
  /\ db[1].repayments # << >>
  /\ db[2].repayments # << >>
  /\ \E r \in Requests : inflight[r] # Idle /\ inflight[r].app = 2

\* C33: every stored application with totalAmount > 0 has
\* paidAmount <= totalAmount, after any sequence of requests served one at
\* a time.
C33_NeverPaidAboveTotal ==
  \A a \in Stored :
     db[a].totalAmount > 0 => db[a].paidAmount <= db[a].totalAmount

Balances(doc) ==
  << doc.totalAmount, doc.paidAmount, doc.remainingAmount, doc.repaymentStatus >>

\* C34: a confirmation of amount minor units for an Approved application
\* whose balances are canonical stores the totalAmount, paidAmount,
\* remainingAmount and repaymentStatus that the direct repayment of
\* amount / 100 by the owner would store, and leaves all four as they were
\* when the direct repayment would be refused.
C34_ConfirmAgreesWithDirect ==
  [][(resp'.op = "confirm" /\ resp'.err = "OK") =>
       \A a \in Stored, actor \in Actors, txn \in TxnIds,
          amount \in CleanConfirmAmounts :
         ( /\ ConfirmPayment(a, actor, txn, amount, "repayment")
           /\ db[a].status = "Approved"
           /\ db[a].totalAmount = Owed(db[a])
           /\ db[a].remainingAmount = Max0(db[a].totalAmount - db[a].paidAmount) )
         => LET owner == [userId |-> db[a].userId, role |-> "borrower"]
                direct == RepayChecks(db[a], owner, Div(amount, Num(100)), txn, "")
            IN  Balances(db'[a])
                  = Balances(IF direct.save THEN direct.doc ELSE db[a])]_vars

\* C35: a GET /repayments/:applicationId changes the stored application
\* only when its status is Approved and its stored totalAmount is 0; it
\* changes no other application, and it never changes paidAmount,
\* repayments or repaymentStatus.
C35_ReadWritesOnlyBackfill ==
  [][resp'.op = "get" =>
       \A a \in Stored, actor \in Actors :
         GetRepayments(a, actor)
         => /\ DOMAIN db' = DOMAIN db
            /\ \A b \in Stored \ {a} : db'[b] = db[b]
            /\ db'[a] # db[a]
                 => db[a].status = "Approved" /\ db[a].totalAmount = 0
            /\ db'[a].paidAmount = db[a].paidAmount
            /\ db'[a].repayments = db[a].repayments
            /\ db'[a].repaymentStatus = db[a].repaymentStatus]_vars

\* the read has just reported 2.00 remaining of 3.00 for an approved record
\* that holds remainingAmount 0 with 1.00 paid, and has not stored it
C35_Witness ==
  \E a \in Stored :
     /\ resp.op = "get" /\ resp.app = a /\ resp.err = "OK"
     /\ resp.shown = << Num(3), Num(2) >>
     /\ db[a].status = "Approved"
     /\ db[a].totalAmount = Num(3) /\ db[a].paidAmount = Num(1)
     /\ db[a].remainingAmount = 0

\* C36: a PATCH /applications/:id/status, whatever status it carries, keeps
\* the application stored with the paidAmount and repayments it had, and
\* with a status other than Approved it also keeps totalAmount,
\* remainingAmount and repaymentStatus; it changes no other application.
C36_StatusKeepsLedger ==
  [][resp'.op = "status" =>
       \A a \in Stored, actor \in GatewayActors, status \in StatusInputs :
         UpdateStatus(a, actor, status)
         => /\ DOMAIN db' = DOMAIN db
            /\ \A b \in Stored \ {a} : db'[b] = db[b]
            /\ db'[a].paidAmount = db[a].paidAmount
            /\ db'[a].repayments = db[a].repayments
            /\ status # "Approved"
                 => /\ db'[a].totalAmount = db[a].totalAmount
                    /\ db'[a].remainingAmount = db[a].remainingAmount
                    /\ db'[a].repaymentStatus = db[a].repaymentStatus]_vars

\* an application with 1.00 repaid has just been set to Rejected and still
\* holds its entry and its balances
C36_Witness ==
  \E a \in Stored :
     /\ resp.op = "status" /\ resp.app = a /\ resp.err = "OK"
     /\ db[a].status = "Rejected"
     /\ Len(db[a].repayments) = 1
     /\ db[a].paidAmount = Num(1)
     /\ db[a].totalAmount = Num(3) /\ db[a].remainingAmount = Num(2)
     /\ db[a].repaymentStatus = "In Progress"

\* ------------------------------------------------ database connection
\* db.js and the ensureDBConnection middleware. Node runs each handler up to
\* its next await without interruption, so every action below is one such
\* stretch. A caller is a request in ensureDBConnection ("middleware") or a
\* bare connectDB() as at startup ("direct"); its pc is
\*   idle        not called yet
\*   connecting  inside await mongoose.connect
\*   waiting     in the promise that polls every 100 ms
\*   resolved, rejected   connectDB has settled
\*   handler, unavailable ensureDBConnection called next() / answered 503
Callers == 1 .. MaxCallers

ConnectInit ==
  /\ db = [a \in {} |-> 0]
  /\ nextId = 1
  /\ resp = NoResp
  /\ inflight = [r \in 1 .. MaxInFlight |-> Idle]
  /\ stripe = TRUE
  /\ \E uri \in BOOLEAN :
        conn = [readyState |-> 0, isConnecting |-> FALSE, mongoUri |-> uri,
                pc |-> [c \in Callers |-> "idle"],
                via |-> [c \in Callers |-> "none"]]

Moves(c, pc) == [conn EXCEPT !.pc[c] = pc]

\* Faulty variant: connectDB without the isConnecting test
ConnectDBNoFlag(c, via) ==
  /\ conn.pc[c] = "idle"
  /\ conn' = LET k == [conn EXCEPT !.via[c] = via]
             IN  IF k.readyState = 1 THEN [k EXCEPT !.pc[c] = "resolved"]
                 ELSE IF ~k.mongoUri THEN [k EXCEPT !.pc[c] = "rejected"]
                 ELSE [k EXCEPT !.isConnecting = TRUE, !.readyState = 2,
                                !.pc[c] = "connecting"]
  /\ UNCHANGED << db, nextId, resp, inflight, stripe >>

\* connectDB, up to its first await or its return (db.js lines 6-42);
\* mongoose.connect puts readyState at 2 (connecting) as it is called
ConnectDB(c, via) ==
  /\ conn.pc[c] = "idle"
  /\ conn' = LET k == [conn EXCEPT !.via[c] = via]
             IN  IF k.readyState = 1 THEN [k EXCEPT !.pc[c] = "resolved"]
                 ELSE IF k.isConnecting THEN [k EXCEPT !.pc[c] = "waiting"]
                 ELSE IF ~k.mongoUri THEN [k EXCEPT !.pc[c] = "rejected"]
                 ELSE [k EXCEPT !.isConnecting = TRUE, !.readyState = 2,
                                !.pc[c] = "connecting"]
  /\ UNCHANGED << db, nextId, resp, inflight, stripe >>

\* ensureDBConnection up to its await: connected already, or connectDB()
EnsureDBConnection(c) ==
  IF conn.readyState = 1
  THEN /\ conn.pc[c] = "idle"
       /\ conn' = [conn EXCEPT !.pc[c] = "handler", !.via[c] = "middleware"]
       /\ UNCHANGED << db, nextId, resp, inflight, stripe >>
  ELSE ConnectDB(c, "middleware")

\* mongoose.connect resolves (db.js lines 52-53)
MongooseConnects(c) ==
  /\ conn.pc[c] = "connecting"
  /\ conn' = [conn EXCEPT !.readyState = 1, !.isConnecting = FALSE,
                          !.pc[c] = "resolved"]
  /\ UNCHANGED << db, nextId, resp, inflight, stripe >>

\* mongoose.connect rejects (db.js lines 54-58)
MongooseFails(c) ==
  /\ conn.pc[c] = "connecting"
  /\ conn' = [conn EXCEPT !.readyState = 0, !.isConnecting = FALSE,
                          !.pc[c] = "rejected"]
  /\ UNCHANGED << db, nextId, resp, inflight, stripe >>

\* Faulty variant: a poll that resolves only when the connection is up
CheckConnectionOnlyUp(c) ==
  /\ conn.pc[c] = "waiting"
  /\ conn.readyState = 1
  /\ conn' = Moves(c, "resolved")
  /\ UNCHANGED << db, nextId, resp, inflight, stripe >>

\* a tick of the setInterval of a waiting call that ends the wait (db.js
\* lines 15-22); the other ticks change nothing
CheckConnection(c) ==
  /\ conn.pc[c] = "waiting"
  /\ conn.readyState = 1 \/ ~conn.isConnecting
  /\ conn' = Moves(c, "resolved")
  /\ UNCHANGED << db, nextId, resp, inflight, stripe >>

\* ensureDBConnection after await connectDB(): the catch, or the second
\* readyState test
Resume(c) ==
  /\ conn.via[c] = "middleware"
  /\ conn.pc[c] \in {"resolved", "rejected"}
  /\ conn' = Moves(c, IF conn.pc[c] = "resolved" /\ conn.readyState = 1
                      THEN "handler" ELSE "unavailable")
  /\ UNCHANGED << db, nextId, resp, inflight, stripe >>

\* the 'disconnected' event of mongoose.connection
Disconnected ==
  /\ conn.readyState = 1
  /\ conn' = [conn EXCEPT !.readyState = 0]
  /\ UNCHANGED << db, nextId, resp, inflight, stripe >>

ConnectNext ==
  \/ \E c \in Callers : ConnectDB(c, "direct")
  \/ \E c \in Callers : EnsureDBConnection(c)
  \/ \E c \in Callers : MongooseConnects(c)
  \/ \E c \in Callers : MongooseFails(c)
  \/ \E c \in Callers : CheckConnection(c)
  \/ \E c \in Callers : Resume(c)
  \/ Disconnected

ConnectSpec == ConnectInit /\ [][ConnectNext]_vars

\* mongoose.connect settles (serverSelectionTimeoutMS), the interval timer
\* keeps firing, and an awaiting middleware is resumed
ConnectLiveSpec ==
  /\ ConnectSpec
  /\ \A c \in Callers :
        /\ WF_vars(MongooseConnects(c) \/ MongooseFails(c))
        /\ WF_vars(CheckConnection(c))
        /\ WF_vars(Resume(c))

Attempting == { c \in Callers : conn.pc[c] = "connecting" }

\* C37: at most one caller is inside mongoose.connect, and isConnecting is
\* true exactly while one is: it is false again after a success, after a
\* failure and before the first attempt.
C37_OneAttemptAtATime ==
  /\ Cardinality(Attempting) <= 1
  /\ conn.isConnecting <=> Attempting # {}

\* an attempt has failed and a second one is in flight with a caller
\* waiting on it
C37_Witness ==
  /\ conn.isConnecting
  /\ \E c \in Callers : conn.pc[c] = "rejected"
  /\ \E c \in Callers : conn.pc[c] = "connecting"
  /\ \E c \in Callers : conn.pc[c] = "waiting"

\* C38: a connectDB call that is waiting on an attempt in flight ends its
\* wait, and ends it resolved, with the connection up or no attempt in
\* flight; ensureDBConnection calls the handler only when readyState is 1 at
\* its check and answers 503 whenever it is not.
C38_WaitersReturnAndGuardHolds ==
  /\ \A c \in Callers : (conn.pc[c] = "waiting") ~> (conn.pc[c] # "waiting")
  /\ [][\A c \in Callers :
          /\ (conn.pc[c] = "waiting" /\ conn'.pc[c] # "waiting")
               => /\ conn'.pc[c] = "resolved"
                  /\ conn.readyState = 1 \/ Attempting = {}
          /\ (conn.pc[c] # "handler" /\ conn'.pc[c] = "handler")
               => conn.readyState = 1 /\ conn'.readyState = 1
          /\ (conn.via[c] = "middleware" /\ conn.readyState # 1
                 /\ conn.pc[c] \in {"resolved", "rejected"}
                 /\ conn'.pc[c] # conn.pc[c])
               => conn'.pc[c] = "unavailable"]_vars

\* the attempt of a direct call has failed, one request has been answered
\* 503 and another has reached its handler
C38_Witness ==
  \E c, d \in Callers :
     /\ conn.pc[c] = "unavailable" /\ conn.pc[d] = "handler"
     /\ \E e \in Callers : conn.pc[e] = "rejected" /\ conn.via[e] = "direct"

====
